---- MODULE Spec2Model ----
(***************************************************************************)
(* State-machine model of azure.eventhub._async.receiver_async.AsyncReceiver *)
(* (open_async, reconnect_async, has_started, close_async, receive) on top   *)
(* of the uamqp ReceiveClientAsync it drives.                                *)
(*                                                                           *)
(* Calls are serialized (one coroutine uses a receiver at a time), so each   *)
(* coroutine is one action, except the readiness-polling loop of             *)
(* open_async / reconnect_async, whose iterations are single steps (pc).     *)
(***************************************************************************)
EXTENDS Integers, Sequences, FiniteSets, TLC

\* ---------------------------------------------------------------- bounds
\* Number of events the partition holds; their offsets are 1..MaxEvents.
MaxEvents == 2
\* Largest explicit max_batch_size a caller passes.
MaxBatch == 1
\* Work cycles after which a pending token authentication reports a timeout.
AuthTimeout == 1
\* Largest number of dropped-but-still-open links that is tracked.
MaxOrphans == 1
\* The prefetch size of the link (300 by default in the code).
Prefetch == 2

\* ---------------------------------------------------------------- values
\* max_batch_size=None
NoneSize == -1
BatchSizes == 0..MaxBatch

\* The offset the receiver is constructed with: no event received yet.
InitOffset == 0
InitialSource == "hub/p0"
RedirectAddresses == {"alt/p0"}
NoAddress == "none"

\* Exceptions (and None) are records; an EventHubError keeps its message and
\* the exception it wraps (details).
Exc(kind, retry, address, msg, details) ==
    [kind |-> kind, retry |-> retry, address |-> address, msg |-> msg, details |-> details]
None == Exc("None", FALSE, NoAddress, "none", "none")
EventHubError(msg, details) == Exc("EventHubError", FALSE, NoAddress, msg, details)
\* An exception raised by a call of the transport other than the batch pull.
TransportError(call) == Exc("TransportError", FALSE, NoAddress, call, "none")
\* str(exception)
Str(e) == e.kind

\* What receive_message_batch_async, or the decoding of a message, can raise.
Faults ==
    {Exc(k, r, NoAddress, k, "none") : k \in {"LinkDetach", "ConnectionClose"}, r \in BOOLEAN}
    \cup {Exc("LinkRedirect", TRUE, a, "LinkRedirect", "none") : a \in RedirectAddresses}
    \cup {Exc("MessageHandlerError", FALSE, NoAddress, "MessageHandlerError", "none"),
          Exc("Other", FALSE, NoAddress, "Other", "none")}

\* What a caller can pass to close_async(exception=...).
CloseArgs ==
    {None, EventHubError("supplied", "none"),
     Exc("LinkDetach", FALSE, NoAddress, "LinkDetach", "none"),
     Exc("Other", FALSE, NoAddress, "Other", "none")}
    \cup {Exc("LinkRedirect", TRUE, a, "LinkRedirect", "none") : a \in RedirectAddresses}

\* errors.LinkRedirect is a subclass of errors.LinkDetach.
IsLinkDetach(e) == e.kind \in {"LinkDetach", "LinkRedirect"}
IsLinkRedirect(e) == e.kind = "LinkRedirect"

Min(a, b) == IF a < b THEN a ELSE b

\* ---------------------------------------------------------------- state
VARIABLES
    source,          \* self.source
    offset,          \* self.offset (0: no event received yet)
    auto_reconnect,  \* self.auto_reconnect
    redirected,      \* self.redirected: None or the redirect exception
    error,           \* self.error: None or the stored EventHubError
    handler,         \* self._handler: the transport link the receiver holds
    cbs,             \* self._handler._connection.cbs: token authentication in use
    orphans,         \* links replaced in self._handler while still open
    pc,              \* "idle", or "poll" inside the loop of open/reconnect
    last,            \* the call in progress or last completed, and its result
    delivered        \* offsets of all events returned to the caller, in order

vars == <<source, offset, auto_reconnect, redirected, error, handler, cbs, orphans,
          pc, last, delivered>>

\* ---------------------------------------------------------------- transport link
\* ReceiveClientAsync(Source(address) filtered by offset, auth=get_auth(creds)):
\* a link serves the events after its cursor, which starts at the filter offset.
NewLink(address, creds, filter) ==
    [address |-> address, creds |-> creds, filter |-> filter, state |-> "built",
     cursor |-> filter, auth |-> "none", ready |-> FALSE, age |-> 0]

\* self._handler.open_async(): a no-op on an open link.
HandlerOpen(s, fails) ==
    LET h == s.handler
        opened == [h EXCEPT !.state = "open",
                            !.auth = IF s.cbs THEN "in_progress" ELSE "none",
                            !.ready = FALSE, !.age = 0]
    IN [s EXCEPT !.tcalls = @ \cup {"open"},
                 !.handler = IF fails \/ h.state = "open" THEN h ELSE opened]

\* self._handler.close_async()
HandlerClose(s, fails) ==
    [s EXCEPT !.tcalls = @ \cup {"close"},
              !.handler = IF fails THEN @ ELSE [@ EXCEPT !.state = "closed", !.ready = FALSE]]

\* self._handler = ReceiveClientAsync(...): the previous link is only dropped.
Rebind(s, link) ==
    [s EXCEPT !.handler = link,
              !.orphans = IF s.handler.state = "open" THEN @ + 1 ELSE @]

\* self._handler._auth.handle_token_async() -> (timeout, auth_in_progress)
HandleToken(link) ==
    CASE link.auth = "timeout" -> {<<TRUE, b>> : b \in BOOLEAN}
      [] link.auth = "in_progress" -> {<<FALSE, TRUE>>}
      [] OTHER -> {<<FALSE, FALSE>>}

\* self._handler._connection.work_async(): one work cycle of the transport.
WorkCycle(link) ==
    LET age == link.age + 1
        auths == IF link.auth = "in_progress"
                 THEN {"complete"} \cup (IF age >= AuthTimeout THEN {"timeout"} ELSE {"in_progress"})
                 ELSE {link.auth}
        readies(a) == IF link.ready THEN {TRUE}
                      ELSE IF a \in {"complete", "none"} THEN BOOLEAN ELSE {FALSE}
    IN UNION {{[link EXCEPT !.age = IF a = "in_progress" THEN age ELSE 0,
                            !.auth = a, !.ready = r] : r \in readies(a)} :
                a \in auths}

\* ---------------------------------------------------------------- receiver
\* The fields of self a coroutine reads and writes, and the transport calls it made.
Self ==
    [source |-> source, offset |-> offset, redirected |-> redirected, error |-> error,
     handler |-> handler, cbs |-> cbs, orphans |-> orphans, tcalls |-> {}]

\* has_started without the question whether the client is ready.
HasStartedIgnoresReady(usesCbs, tokenStatus, clientReady) ==
    LET timeout == IF usesCbs THEN tokenStatus[1] ELSE FALSE
        auth_in_progress == IF usesCbs THEN tokenStatus[2] ELSE FALSE
    IN IF timeout THEN "raise"
       ELSE IF auth_in_progress THEN "false"
       ELSE "true"

\* has_started(): "raise" for EventHubError("Authorization timeout."), else its result.
HasStarted(usesCbs, tokenStatus, clientReady) ==
    LET timeout == IF usesCbs THEN tokenStatus[1] ELSE FALSE
        auth_in_progress == IF usesCbs THEN tokenStatus[2] ELSE FALSE
    IN IF timeout THEN "raise"
       ELSE IF auth_in_progress THEN "false"
       ELSE IF ~clientReady THEN "false"
       ELSE "true"

AuthTimeoutError == EventHubError("Authorization timeout.", "none")

\* The error close_async stores for a supplied exception that is no redirect.
CloseError(exception) ==
    IF exception.kind = "EventHubError" THEN exception
    ELSE IF IsLinkDetach(exception) \/ exception.kind = "ConnectionClose"
         THEN EventHubError(Str(exception), exception.kind)
    ELSE IF exception # None THEN EventHubError(Str(exception), "none")
    ELSE EventHubError("This receive handler is now closed.", "none")

\* close_async without the return on a stored error.
CloseAsyncUnguarded(s, exception, closeFails) ==
    LET t == IF IsLinkRedirect(exception)
             THEN [s EXCEPT !.redirected = exception]
             ELSE [s EXCEPT !.error = CloseError(exception)]
    IN [self |-> HandlerClose(t, closeFails),
        raised |-> IF closeFails THEN TransportError("close") ELSE None]

\* close_async returning after it stored a redirect, the link left as it is.
CloseAsyncRedirectReturns(s, exception, closeFails) ==
    IF s.error # None THEN [self |-> s, raised |-> None]
    ELSE IF IsLinkRedirect(exception)
    THEN [self |-> [s EXCEPT !.redirected = exception], raised |-> None]
    ELSE [self |-> HandlerClose([s EXCEPT !.error = CloseError(exception)], closeFails),
          raised |-> IF closeFails THEN TransportError("close") ELSE None]

\* close_async(exception): the resulting self and the exception it lets escape.
CloseAsync(s, exception, closeFails) ==
    IF s.error # None THEN [self |-> s, raised |-> None]
    ELSE LET t == IF IsLinkRedirect(exception)
                  THEN [s EXCEPT !.redirected = exception]
                  ELSE [s EXCEPT !.error = CloseError(exception)]
         IN [self |-> HandlerClose(t, closeFails),
             raised |-> IF closeFails THEN TransportError("close") ELSE None]

\* open_async() up to its polling loop.
OpenAsync(s, openFails) ==
    LET t == IF s.redirected # None
             THEN Rebind([s EXCEPT !.source = s.redirected.address],
                         NewLink(s.redirected.address, "alt", s.offset))
             ELSE s
    IN [self |-> HandlerOpen(t, openFails),
        raised |-> IF openFails THEN TransportError("open") ELSE None]

\* reconnect_async building the link with the filter of construction time.
ReconnectAsyncStaleFilter(s, closeFails, openFails) ==
    LET a == HandlerClose(s, closeFails)
        b == Rebind(a, NewLink(a.source, "alt", InitOffset))
    IN IF closeFails THEN [self |-> a, raised |-> TransportError("close")]
       ELSE [self |-> HandlerOpen(b, openFails),
             raised |-> IF openFails THEN TransportError("open") ELSE None]

\* reconnect_async building the link at the position the old link had fetched to.
ReconnectAsyncKeepsCursor(s, closeFails, openFails) ==
    LET a == HandlerClose(s, closeFails)
        b == Rebind(a, NewLink(a.source, "alt", a.handler.cursor))
    IN IF closeFails THEN [self |-> a, raised |-> TransportError("close")]
       ELSE [self |-> HandlerOpen(b, openFails),
             raised |-> IF openFails THEN TransportError("open") ELSE None]

\* reconnect_async() up to its polling loop.
ReconnectAsync(s, closeFails, openFails) ==
    LET a == HandlerClose(s, closeFails)
        b == Rebind(a, NewLink(a.source, "alt", a.offset))
    IN IF closeFails THEN [self |-> a, raised |-> TransportError("close")]
       ELSE [self |-> HandlerOpen(b, openFails),
             raised |-> IF openFails THEN TransportError("open") ELSE None]

\* The batch size the transport uses for a pull: max_batch_size or prefetch.
PullLimit(max_batch_size) ==
    IF max_batch_size = NoneSize \/ max_batch_size = 0 THEN Prefetch ELSE max_batch_size

\* How many events a pull on the link can fetch.
Fetchable(link, max_batch_size) == Min(PullLimit(max_batch_size), MaxEvents - link.cursor)

\* receive_message_batch_async: the link fetches the n events after its cursor;
\* the pull opens a link that is not open.
Pull(s, n, raises) ==
    [s EXCEPT !.tcalls = @ \cup {"pull"},
              !.handler = IF raises THEN [@ EXCEPT !.cursor = @ + n]
                          ELSE [@ EXCEPT !.cursor = @ + n, !.state = "open", !.ready = TRUE,
                                         !.auth = IF s.cbs THEN "complete" ELSE "none"]]

\* The messages a successful pull of n events returns, each denoted by its offset.
MessageBatch(link, n) == [i \in 1..n |-> link.cursor + i]

\* The offset left as it was.
AdvanceOffsetNever(off, event_data) == off

\* self.offset = event_data.offset
AdvanceOffset(off, event_data) == event_data

\* for message in message_batch: ...; decoding message number `at` raises (0: none does).
RECURSIVE DecodeLoop(_, _, _, _, _)
DecodeLoop(off, data_batch, message_batch, i, at) ==
    IF i > Len(message_batch) \/ i = at
    THEN [offset |-> off, data_batch |-> data_batch]
    ELSE DecodeLoop(AdvanceOffset(off, message_batch[i]), Append(data_batch, message_batch[i]),
                    message_batch, i + 1, at)

\* The except clause of receive() an exception reaches, and the branch taken in it.
Classify(shutdown, auto) ==
    IF IsLinkDetach(shutdown) \/ shutdown.kind = "ConnectionClose"
    THEN IF shutdown.retry /\ auto THEN "reconnect" ELSE "shutdown"
    ELSE IF shutdown.kind = "MessageHandlerError"
         THEN IF auto THEN "reconnect" ELSE "shutdown"
    ELSE "unexpected"

\* The EventHubError receive() builds on its failing branches.
ReceiveError(e, branch) ==
    IF branch = "shutdown" THEN EventHubError(Str(e), e.kind)
    ELSE EventHubError("Receive failed", "none")

\* receive() up to its return, its raise, or the polling loop of its reconnect.
\* n events are fetched; fault (None: no fault) is raised by the pull (at = 0)
\* or by the decoding of message number at.
Receive(s, auto, n, fault, at, closeFails, openFails) ==
    IF s.error # None
    THEN [self |-> s, outcome |-> "raised", raised |-> s.error, batch |-> <<>>]
    ELSE
    LET pullRaises == fault # None /\ at = 0
        p == Pull(s, n, pullRaises)
        message_batch == IF pullRaises THEN <<>> ELSE MessageBatch(s.handler, n)
        d == DecodeLoop(s.offset, <<>>, message_batch, 1, at)
        q == [p EXCEPT !.offset = d.offset]
        branch == Classify(fault, auto)
    IN IF fault = None
       THEN [self |-> q, outcome |-> "returned", raised |-> None, batch |-> d.data_batch]
       ELSE IF branch = "reconnect"
       THEN LET r == ReconnectAsync(q, closeFails, openFails)
            IN IF r.raised # None
               THEN [self |-> r.self, outcome |-> "raised", raised |-> r.raised, batch |-> <<>>]
               ELSE [self |-> r.self, outcome |-> "poll", raised |-> None,
                     batch |-> d.data_batch]
       ELSE LET err == ReceiveError(fault, branch)
                c == CloseAsync(q, err, closeFails)
            IN [self |-> c.self, outcome |-> "raised",
                raised |-> IF c.raised # None THEN c.raised ELSE err, batch |-> <<>>]

\* ---------------------------------------------------------------- actions
\* The record of a call: its arguments, what it did and how it ended
\* (pullOk: the batch pull of a receive() returned; tcalls: the transport calls made;
\* tick: the parity of the iterations of the polling loop run so far, while it runs).
Call(op, arg, max, at, s, outcome, raised, batch) ==
    [op |-> op, arg |-> arg, max |-> max,
     pullOk |-> (op = "receive" /\ error = None /\ (at # 0 \/ arg = None)),
     outcome |-> outcome, raised |-> raised, batch |-> batch, tcalls |-> s.tcalls,
     preOffset |-> offset, preError |-> error, tick |-> FALSE]

\* The fields of self after a coroutine ran up to a suspension or its end.
Commit(s) ==
    /\ s.orphans <= MaxOrphans
    /\ source' = s.source
    /\ offset' = s.offset
    /\ redirected' = s.redirected
    /\ error' = s.error
    /\ handler' = s.handler
    /\ orphans' = s.orphans

\* __init__
Init ==
    /\ source = InitialSource
    /\ offset = InitOffset
    /\ auto_reconnect \in BOOLEAN
    /\ cbs \in BOOLEAN
    /\ redirected = None
    /\ error = None
    /\ handler = NewLink(InitialSource, "default", offset)
    /\ orphans = 0
    /\ pc = "idle"
    /\ last = [op |-> "init", arg |-> None, max |-> NoneSize, pullOk |-> FALSE,
               outcome |-> "returned", raised |-> None, batch |-> <<>>, tcalls |-> {},
               preOffset |-> offset, preError |-> None, tick |-> FALSE]
    /\ delivered = <<>>

\* await receiver.open_async(), up to the polling loop
Open ==
    /\ pc = "idle"
    /\ \E fails \in {"none", "open"} :
         \E r \in {OpenAsync(Self, fails = "open")} :
            /\ Commit(r.self)
            /\ pc' = IF r.raised = None THEN "poll" ELSE "idle"
            /\ last' = Call("open", None, NoneSize, 0, r.self,
                            IF r.raised = None THEN "running" ELSE "raised", r.raised, <<>>)
    /\ UNCHANGED <<auto_reconnect, cbs, delivered>>

\* await receiver.reconnect_async(), up to the polling loop
Reconnect ==
    /\ pc = "idle"
    /\ \E fails \in {"none", "close", "open"} :
         \E r \in {ReconnectAsync(Self, fails = "close", fails = "open")} :
            /\ Commit(r.self)
            /\ pc' = IF r.raised = None THEN "poll" ELSE "idle"
            /\ last' = Call("reconnect", None, NoneSize, 0, r.self,
                            IF r.raised = None THEN "running" ELSE "raised", r.raised, <<>>)
    /\ UNCHANGED <<auto_reconnect, cbs, delivered>>

\* One iteration of `while not await self.has_started(): await ...work_async()`
Poll ==
    /\ pc = "poll"
    /\ \E tokenStatus \in HandleToken(handler) :
         LET started == HasStarted(cbs, tokenStatus, handler.ready)
             asked == (IF cbs THEN {"auth"} ELSE {})
                      \cup (IF cbs /\ (tokenStatus[1] \/ tokenStatus[2]) THEN {} ELSE {"ready"})
         IN IF started = "raise"
            THEN /\ pc' = "idle"
                 /\ last' = [last EXCEPT !.outcome = "raised", !.raised = AuthTimeoutError,
                                         !.tcalls = @ \cup asked, !.tick = FALSE]
                 /\ UNCHANGED <<handler, delivered>>
            ELSE IF started = "true"
            THEN /\ pc' = "idle"
                 /\ last' = [last EXCEPT !.outcome = "returned", !.tcalls = @ \cup asked,
                                         !.tick = FALSE]
                 /\ delivered' = delivered \o last.batch
                 /\ UNCHANGED handler
            ELSE /\ pc' = "poll"
                 /\ \E link \in WorkCycle(handler) : handler' = link
                 /\ last' = [last EXCEPT !.tcalls = @ \cup asked \cup {"work"},
                                         !.tick = ~@]
                 /\ UNCHANGED delivered
    /\ UNCHANGED <<source, offset, auto_reconnect, redirected, error, cbs, orphans>>

\* await receiver.close_async(exception)
Close ==
    /\ pc = "idle"
    /\ \E exception \in CloseArgs, closeFails \in BOOLEAN :
         \E r \in {CloseAsync(Self, exception, closeFails)} :
            /\ Commit(r.self)
            /\ last' = Call("close", exception, NoneSize, 0, r.self,
                            IF r.raised = None THEN "returned" ELSE "raised", r.raised, <<>>)
    /\ UNCHANGED <<auto_reconnect, cbs, pc, delivered>>

\* The close or open of the transport that fails in a receive(); none is called
\* without a fault, and no link is opened on the shutdown branches.
TransportFails(fault) ==
    IF fault = None \/ error # None THEN {"none"}
    ELSE IF Classify(fault, auto_reconnect) = "reconnect" THEN {"none", "close", "open"}
    ELSE {"none", "close"}

\* What the transport does in a receive(): nothing when receive() raises at once.
PullFaults == IF error # None THEN {None} ELSE Faults \cup {None}
Fetched(max) == IF error # None THEN {0} ELSE 0..Fetchable(handler, max)

\* await receiver.receive(max_batch_size), up to the polling loop of its reconnect
ReceiveCall ==
    /\ pc = "idle"
    /\ Len(delivered) <= MaxEvents
    /\ \E max \in BatchSizes, fault \in PullFaults :
         \E n \in Fetched(max), fails \in TransportFails(fault) :
           \E at \in IF fault = None THEN {0} ELSE 0..n :
             \E r \in {Receive(Self, auto_reconnect, n, fault, at,
                               fails = "close", fails = "open")} :
                /\ Commit(r.self)
                /\ pc' = IF r.outcome = "poll" THEN "poll" ELSE "idle"
                /\ last' = Call("receive", fault, max, at, r.self,
                                IF r.outcome = "poll" THEN "running" ELSE r.outcome,
                                r.raised, r.batch)
                /\ delivered' = IF r.outcome = "returned" THEN delivered \o r.batch
                                ELSE delivered
    /\ UNCHANGED <<auto_reconnect, cbs>>

Next == Open \/ Reconnect \/ Poll \/ Close \/ ReceiveCall

Spec == Init /\ [][Next]_vars

\* The event loop resumes the coroutine after each await: the polling loop of a
\* running open_async / reconnect_async keeps iterating.
FairSpec == Spec /\ WF_vars(Poll)

\* ---------------------------------------------------------------- properties
Idle == pc = "idle"
Range(seq) == {seq[i] : i \in 1..Len(seq)}
StrictlyIncreasing(seq) == \A i \in 1..Len(seq), j \in 1..Len(seq) : i < j => seq[i] < seq[j]
\* A receive() has completed that was called on a receiver holding no error.
ReceiveDone == Idle /\ last.op = "receive" /\ last.preError = None
\* The batch a receive() returned matches the advance of the offset in that call.
BatchMatchesOffset ==
    IF last.batch = <<>> THEN offset = last.preOffset
    ELSE offset = last.batch[Len(last.batch)] /\ offset > last.preOffset

\* C1: a link-detach or connection-close with its retry flag set, or a handler-level
\* error, under auto_reconnect: receive() returns the events decoded so far, the
\* receiver holds no error and owns an opened, ready link, whatever the reconnect did.
RetryableFault(f) ==
    (f.kind \in {"LinkDetach", "ConnectionClose"} /\ f.retry) \/ f.kind = "MessageHandlerError"
C1_ReturnsAfterReconnect ==
    (ReceiveDone /\ auto_reconnect /\ RetryableFault(last.arg))
        => /\ last.outcome = "returned"
           /\ BatchMatchesOffset
           /\ error = None
           /\ handler.state = "open" /\ handler.ready

\* C2: a link-detach or connection-close with the retry flag unset, a retryable
\* failure without auto_reconnect, or an unclassified exception: receive() raises the
\* error it stored in self.error and the link is closed; a receive() on a receiver
\* holding an error raises that error, calls no transport and keeps the offset.
FatalFault(f) ==
    \/ f.kind \in {"LinkDetach", "ConnectionClose"} /\ ~f.retry
    \/ RetryableFault(f) /\ ~auto_reconnect
    \/ f.kind = "Other"
C2_FatalRaisesStoredError ==
    /\ (ReceiveDone /\ FatalFault(last.arg))
         => /\ last.outcome = "raised"
            /\ error # None /\ last.raised = error
            /\ handler.state = "closed"
    /\ (Idle /\ last.op = "receive" /\ last.preError # None)
         => /\ last.outcome = "raised"
            /\ last.raised = last.preError /\ error = last.preError
            /\ last.tcalls = {}
            /\ offset = last.preOffset

\* C3: an open() whose authentication times out raises the authorization timeout and
\* leaves it stored in self.error; calls made on the receiver holding it call no transport.
C3_OpenTimeoutIsErrored ==
    /\ (Idle /\ last.op = "open" /\ last.raised = AuthTimeoutError)
         => error = AuthTimeoutError
    /\ (last.op \in {"receive", "open", "reconnect", "close"}
          /\ last.preError = AuthTimeoutError)
         => last.tcalls = {}

\* C4: a link-redirect raised in receive() under auto_reconnect: receive() returns, and
\* the receiver then reads from the redirected address with the alternate credentials.
C4_RedirectFollowed ==
    (ReceiveDone /\ auto_reconnect /\ IsLinkRedirect(last.arg))
        => /\ last.outcome = "returned"
           /\ source = last.arg.address
           /\ handler.address = last.arg.address
           /\ handler.creds = "alt"

\* C5: the events returned to the caller, over all receive() calls and reconnects, are
\* strictly increasing in offset: none is returned twice, since the link the receiver
\* holds never serves an event at or below the offset.
C5_DeliveryStrictlyIncreasing ==
    /\ StrictlyIncreasing(delivered)
    /\ \A e \in Range(delivered) : e <= offset
    /\ handler.cursor >= offset
\* An event was returned, the link was rebuilt from its offset, and the next was returned.
C5_Witness ==
    /\ Idle /\ last.op = "receive" /\ last.outcome = "returned"
    /\ handler.creds = "alt" /\ handler.filter = 1
    /\ delivered = <<1, 2>> /\ last.batch = <<2>>

\* C6: after a receive() whose pull succeeded, the offset is that of the last event
\* of the returned batch and greater than before, or unchanged for an empty batch.
C6_OffsetIsLastReturned ==
    (Idle /\ last.op = "receive" /\ last.pullOk /\ last.outcome = "returned")
        => BatchMatchesOffset
C6_Witness ==
    /\ Idle /\ last.op = "receive" /\ last.pullOk /\ last.outcome = "returned"
    /\ Len(last.batch) = 2 /\ last.preOffset = InitOffset

\* C7: between calls, every event after the initial offset and at or below the offset
\* has been returned to the caller by some receive().
C7_NoSpeculativeAdvance ==
    Idle => \A e \in (InitOffset + 1)..offset : e \in Range(delivered)

\* C8: a receive() that raises leaves the raised error stored in self.error, and a
\* receive() on a receiver holding an error raises it without a transport call.
C8_RaisedErrorStored ==
    /\ (Idle /\ last.op = "receive" /\ last.outcome = "raised")
         => (error # None /\ error = last.raised)
    /\ (Idle /\ last.op = "receive" /\ last.preError # None)
         => (last.raised = last.preError /\ last.tcalls = {})

\* C9: close() on a receiver holding an error changes nothing, for every argument: the
\* error, the pending redirect, the offset and the link stay, and no transport is called.
C9_CloseOnErroredIsNoOp ==
    [][(Idle /\ error # None /\ last'.op = "close")
          => /\ error' = error /\ redirected' = redirected /\ offset' = offset
             /\ handler' = handler /\ source' = source /\ orphans' = orphans
             /\ last'.tcalls = {} /\ last'.outcome = "returned"]_vars
C9_Witness ==
    /\ last.op = "close" /\ last.preError # None /\ IsLinkRedirect(last.arg)
    /\ handler.state = "open"

\* C10 as stated: close(exception) on a receiver holding no error stores a link-redirect
\* and returns without closing the link and without an error; any other argument stores
\* an error (the EventHubError given, a wrapper, or the generic one) and closes the link.
C10_RedirectLeavesLinkOpen ==
    (last.op = "close" /\ last.preError = None)
        => IF IsLinkRedirect(last.arg)
           THEN redirected = last.arg /\ error = None /\ "close" \notin last.tcalls
           ELSE error = CloseError(last.arg) /\ "close" \in last.tcalls
\* C10 amended: the link-redirect is stored without an error, and the transport's close
\* is called for every argument; the link is closed unless that close raises.
C10_CloseAlwaysClosesLink ==
    (last.op = "close" /\ last.preError = None)
        => /\ IF IsLinkRedirect(last.arg)
              THEN redirected = last.arg /\ error = None
              ELSE error = CloseError(last.arg) /\ error # None
           /\ "close" \in last.tcalls
           /\ (last.outcome = "returned" => handler.state = "closed")
           /\ (last.outcome = "raised" => last.raised = TransportError("close"))
C10_Witness ==
    /\ last.op = "close" /\ last.preError = None /\ IsLinkRedirect(last.arg)
    /\ last.outcome = "returned" /\ handler.state = "closed" /\ redirected = last.arg

\* C11: receive(max_batch_size=0) on a receiver holding no error returns an empty
\* batch without a batch pull of the transport, and leaves offset, error and link alone.
C11_ZeroBatchSkipsTransport ==
    [][(Idle /\ error = None /\ last'.op = "receive" /\ last'.max = 0)
          => /\ last'.outcome = "returned" /\ last'.batch = <<>>
             /\ "pull" \notin last'.tcalls
             /\ offset' = offset /\ error' = error /\ handler' = handler]_vars

\* C12: the receiver owns at most one live link: no link is ever replaced in
\* self._handler while it is opened and not closed.
C12_AtMostOneLiveLink == orphans = 0

\* C13: once a call has completed with self.error set, the link is closed, and a later
\* open(), reconnect(), receive() or close() calls no transport and opens no link.
C13_ErroredIsTerminalForLink ==
    /\ (Idle /\ error # None) => handler.state = "closed"
    /\ (last.op \in {"open", "reconnect", "receive", "close"} /\ last.preError # None)
         => last.tcalls = {}

\* C14: the open() that rebuilds the link from a stored redirect discards it:
\* self.redirected is unset once that open() has run.
C14_RedirectConsumedOnce ==
    [][(Idle /\ redirected # None /\ last'.op = "open") => redirected' = None]_vars

\* A reconnect_async has run: called by the caller, or by receive() on its reconnect branch.
ReconnectRan ==
    \/ last.op = "reconnect"
    \/ /\ last.op = "receive" /\ last.preError = None /\ last.arg # None
       /\ Classify(last.arg, auto_reconnect) = "reconnect"

\* C15: reconnect() does not propagate a failure of the close of the old link: the new
\* link is still built from the current offset and opened.
C15_OldLinkCloseBestEffort ==
    ReconnectRan
        => /\ last.raised # TransportError("close")
           /\ handler.creds = "alt" /\ handler.filter = offset
           /\ "open" \in last.tcalls

\* The failures the claim has receive() answer by a reconnect.
ReconnectExpected(f) ==
    auto_reconnect /\ (((IsLinkDetach(f) \/ f.kind = "ConnectionClose") /\ f.retry)
                       \/ f.kind = "MessageHandlerError")
\* The two outcomes of a failure in receive().
ReconnectedAndReturned ==
    last.outcome = "returned" /\ error = None /\ "open" \in last.tcalls
StoredClosedAndRaised ==
    /\ last.outcome = "raised" /\ error # None /\ last.raised = error
    /\ handler.state = "closed"

\* C16: every failure raised in receive() ends in exactly one of the two outcomes
\* 'reconnect and return the batch' and 'store error, close link, raise'; the first
\* exactly for auto_reconnect with a link-detach or connection-close whose retry flag
\* is set or a handler-level error, never without auto_reconnect.
C16_ClassificationTotal ==
    (ReceiveDone /\ last.arg # None)
        => /\ ReconnectedAndReturned # StoredClosedAndRaised
           /\ ReconnectedAndReturned <=> ReconnectExpected(last.arg)
           /\ ~auto_reconnect => StoredClosedAndRaised

\* C17: has_started() is true only with the authentication neither timed out nor in
\* progress and the client ready; it raises the authorization timeout whenever the
\* authentication step reports one; that step runs only under token authentication;
\* open() and reconnect() return only from a has_started() that was true for their link.
C17_StartedMeansReady ==
    [][/\ (pc = "poll" /\ pc' = "idle" /\ last'.outcome = "returned")
            => /\ handler.ready /\ handler.state = "open" /\ handler' = handler
               /\ cbs => handler.auth = "complete"
       /\ (pc = "poll" /\ cbs /\ handler.auth = "timeout")
            => (pc' = "idle" /\ last'.outcome = "raised" /\ last'.raised = AuthTimeoutError)
       /\ "auth" \in last'.tcalls => cbs
       /\ (last'.op \in {"open", "reconnect"} /\ last'.outcome = "returned"
             /\ last.outcome # "returned")
            => pc = "poll"]_vars
C17_Witness ==
    /\ Idle /\ last.op = "open" /\ last.outcome = "returned"
    /\ cbs /\ "auth" \in last.tcalls /\ "work" \in last.tcalls
    /\ handler.ready /\ handler.auth = "complete"

\* C18: every open() and reconnect() ends: the polling loop observes readiness or
\* raises the authorization timeout, and never polls forever.
C18_PollingTerminates == (pc = "poll") ~> (pc = "idle")

\* C19: the stored error is write-once: once self.error is set no call replaces or
\* clears it; it is written only from unset, and only by close_async (called directly
\* or from receive()).
C19_ErrorWriteOnce ==
    [][/\ error # None => error' = error
       /\ error' # error => last'.op \in {"close", "receive"}]_vars
C19_Witness ==
    /\ Idle /\ last.op = "close" /\ last.preError # None
    /\ last.arg # None /\ ~IsLinkRedirect(last.arg) /\ CloseError(last.arg) # last.preError
    /\ error = last.preError

PullFailed == last.op = "receive" /\ last.preError = None /\ last.arg # None /\ ~last.pullOk

\* C20: a receive() whose batch pull raises leaves the offset as it was before the call;
\* when it returns through the reconnect path its batch is empty, and the rebuilt link
\* starts from the unchanged offset, so the events the failed pull had fetched are
\* fetched again.
C20_FailedPullKeepsOffset ==
    PullFailed
        => /\ offset = last.preOffset
           /\ last.outcome = "returned" => last.batch = <<>>
           /\ "open" \in last.tcalls
                => /\ handler.filter = last.preOffset
                   /\ handler.cursor = last.preOffset
C20_Witness ==
    /\ PullFailed /\ Idle /\ last.outcome = "returned" /\ "open" \in last.tcalls
    /\ last.preOffset = 1 /\ handler.cursor = 1 /\ Len(delivered) = 1

====
